---- MODULE Spec2Model ----
(***************************************************************************)
(* A model of decorator_utils: the parameter catalog (get_argument_info),  *)
(* the argument locator and rewriter (get_argument, put_argument), the     *)
(* output locator and rewriter (get_output, put_output), the decorator     *)
(* normalizer (decorator), the factory dispatcher (decorator_factory) and  *)
(* the client wrapper cast_argument_to_type.                               *)
(*                                                                         *)
(* A Python object is a record with a kind field.  A tuple or list is a    *)
(* sequence: Python's 0-based index i is the sequence's index i + 1.  A    *)
(* dict is a function whose domain is its keys.  A call's result is a      *)
(* record whose field exc is "None" on a normal return, with the returned  *)
(* object in value, and the exception's class name when the call raised.   *)
(*                                                                         *)
(* The state is one interpreter session: pc is the call that was made      *)
(* last, call holds its arguments as they were when the call was made,     *)
(* ret its result, and after the contents, once the call is over, of the   *)
(* mutable objects that were passed in.                                    *)
(***************************************************************************)
EXTENDS Integers, Sequences, FiniteSets, TLC

VARIABLES pc, call, ret, after

vars == <<pc, call, ret, after>>

\* ------------------------------------------------------------------ bounds

\* Most parameters a target function declares.
MaxParams == 2

\* Most positional values a caller passes.
MaxArgs == 2

\* Longest sequence a target returns.
MaxOut == 3

\* ------------------------------------------------------------------ values

PyInt(n) == [kind |-> "int", v |-> n]

PyStr(s) == [kind |-> "str", v |-> s]

None == [kind |-> "NoneType"]

\* The values callers pass and targets return.
Values == {PyInt(1), PyInt(2)}

\* inspect.Parameter.empty: the default of a parameter that declares none.
Empty == [kind |-> "empty"]

\* The parameter names targets declare, in declaration order.
AllNames == <<"a", "b", "c", "d">>

ParamNames == {AllNames[i] : i \in 1..MaxParams}

\* The empty dict.
EmptyDict == [k \in {} |-> None]

\* d[k] = v on a dict: the key is inserted or overwritten.
DictSet(d, k, v) == [x \in (DOMAIN d) \cup {k} |-> IF x = k THEN v ELSE d[x]]

\* {**d, **e}: the entries of e win.
DictMerge(d, e) ==
    [x \in (DOMAIN d) \cup (DOMAIN e) |-> IF x \in DOMAIN e THEN e[x] ELSE d[x]]

\* seq[i] of a Python sequence: i in [-len, len) selects, anything else is
\* an IndexError.
PyInRange(seq, i) == -Len(seq) <= i /\ i < Len(seq)

PyGetItem(seq, i) == IF i >= 0 THEN seq[i + 1] ELSE seq[Len(seq) + i + 1]

\* The exception classes that are subclasses of LookupError.
LookupErrors == {"LookupError", "IndexError", "KeyError"}

Return(v) == [exc |-> "None", value |-> v]

Raise(e) == [exc |-> e]

\* ------------------------------------------------------- function objects

\* No __signature__ attribute, no __wrapped__ attribute.
Absent == <<>>

Param(name, default) == [name |-> name, default |-> default]

\* def name(params): a function object as the def statement leaves it.
\* body names the code the function runs; closure holds its free variables.
Function(name, doc, params, body, closure) ==
    [kind |-> "function", name |-> name, doc |-> doc, params |-> params,
     signature |-> Absent, wrapped |-> Absent, body |-> body, closure |-> closure]

\* The builtin callable().
Callable(x) == x.kind \in {"function", "partial", "builtin"}

\* inspect.signature(fn).parameters: the chain of __wrapped__ is followed
\* up to the first object that has a __signature__, whose value is taken;
\* at the end of the chain stand the declared parameters.
RECURSIVE Signature(_)
Signature(fn) ==
    IF fn.signature # Absent THEN fn.signature[1]
    ELSE IF fn.wrapped # Absent /\ fn.wrapped[1] # fn THEN Signature(fn.wrapped[1])
    ELSE fn.params

\* The parameter lists a def statement accepts: a parameter without
\* default never follows one with a default.
ParamLists ==
    UNION {
        {p \in [1..n -> [name : ParamNames, default : Values \cup {Empty}]] :
            /\ \A i \in 1..n : p[i].name = AllNames[i]
            /\ \A i \in 1..n, j \in 1..n :
                   (i < j /\ p[i].default # Empty) => p[j].default # Empty}
        : n \in 1..MaxParams}

\* The functions to be wrapped.
Targets == {Function("f", "doc f", p, "target", EmptyDict) : p \in ParamLists}

\* The positional tuples and the keyword dicts of a call.
ArgTuples == UNION {[1..n -> Values] : n \in 0..MaxArgs}

KwargDicts == UNION {[S -> Values] : S \in SUBSET ParamNames}

\* fn(*args, **kwargs): how Python binds a call's values to the declared
\* parameters.  The value is the dict parameter name -> value received.
Bind(params, args, kwargs) ==
    LET n == Len(params)
        names == {params[i].name : i \in 1..n}
        pos(nm) == CHOOSE i \in 1..n : params[i].name = nm
    IN  IF Len(args) > n THEN Raise("TypeError")
        ELSE IF \E k \in DOMAIN kwargs : k \notin names THEN Raise("TypeError")
        ELSE IF \E i \in 1..Len(args) : params[i].name \in DOMAIN kwargs
        THEN Raise("TypeError")
        ELSE IF \E i \in (Len(args) + 1)..n :
                    params[i].name \notin DOMAIN kwargs /\ params[i].default = Empty
        THEN Raise("TypeError")
        ELSE Return([nm \in names |->
                        IF pos(nm) <= Len(args) THEN args[pos(nm)]
                        ELSE IF nm \in DOMAIN kwargs THEN kwargs[nm]
                        ELSE params[pos(nm)].default])

\* ------------------------------------------------------ parameter catalog

ArgumentInfo(argname, argnum, default) ==
    [argname |-> argname, argnum |-> argnum, default |-> default]

\* _update_argnum without the normalization of line 75.
_update_argnum_unnormalized(params, argnum) == argnum

_update_argnum(params, argnum) ==
    IF argnum < 0 THEN argnum + Len(params) ELSE argnum

get_argument_info(fn, argnum) ==
    LET params == Signature(fn) IN
    IF ~PyInRange(params, argnum)
    THEN Raise("IndexError")
    ELSE LET p == PyGetItem(params, argnum) IN
         Return(ArgumentInfo(p.name, _update_argnum(params, argnum), p.default))

\* -------------------------------------------------------- argument locator

POSITIONAL == "POSITIONAL"
KEYWORD == "KEYWORD"
DEFAULT == "DEFAULT"

\* The members of the enumeration Argument.
Argument == {POSITIONAL, KEYWORD, DEFAULT}

\* get_argument with the tests of lines 170 and 172 in the other order.
get_argument_positional_first(argument_info, args, kwargs) ==
    IF Len(args) > argument_info.argnum
    THEN Return(<<PyGetItem(args, argument_info.argnum), POSITIONAL>>)
    ELSE IF argument_info.argname \in DOMAIN kwargs
    THEN Return(<<kwargs[argument_info.argname], KEYWORD>>)
    ELSE Return(<<argument_info.default, DEFAULT>>)

\* The value is the pair (argument, Argument member).
get_argument(argument_info, args, kwargs) ==
    IF argument_info.argname \in DOMAIN kwargs
    THEN Return(<<kwargs[argument_info.argname], KEYWORD>>)
    ELSE IF Len(args) > argument_info.argnum
    THEN IF PyInRange(args, argument_info.argnum)
         THEN Return(<<PyGetItem(args, argument_info.argnum), POSITIONAL>>)
         ELSE Raise("IndexError")
    ELSE Return(<<argument_info.default, DEFAULT>>)

\* ------------------------------------------------------- argument rewriter

\* put_argument with line 210 comparing a 1-based position to argnum.
put_argument_off_by_one(argument, argument_info, argument_type, args, kwargs) ==
    IF argument_type \in {DEFAULT, KEYWORD}
    THEN LET written == DictSet(kwargs, argument_info.argname, argument) IN
         [exc |-> "None", value |-> <<args, written>>, kwargs_obj |-> written]
    ELSE IF argument_type = POSITIONAL
    THEN [exc |-> "None",
          value |-> <<[idx \in 1..Len(args) |->
                          IF idx # argument_info.argnum THEN args[idx] ELSE argument],
                      kwargs>>,
          kwargs_obj |-> kwargs]
    ELSE [exc |-> "RuntimeError", kwargs_obj |-> kwargs]

\* The value is the returned pair (args, kwargs).  kwargs_obj is the
\* contents, after the call, of the dict object that was passed in: line
\* 207 assigns into that object and line 216 returns that same object.
put_argument(argument, argument_info, argument_type, args, kwargs) ==
    IF argument_type \in {DEFAULT, KEYWORD}
    THEN LET written == DictSet(kwargs, argument_info.argname, argument) IN
         [exc |-> "None", value |-> <<args, written>>, kwargs_obj |-> written]
    ELSE IF argument_type = POSITIONAL
    THEN [exc |-> "None",
          value |-> <<[idx \in 1..Len(args) |->
                          IF idx - 1 # argument_info.argnum THEN args[idx] ELSE argument],
                      kwargs>>,
          kwargs_obj |-> kwargs]
    ELSE [exc |-> "RuntimeError", kwargs_obj |-> kwargs]

\* ---------------------------------------------------------------- outputs

\* What a target returns: a list or a tuple of values, or a dict.
OutKeys == {"x", "y"}

SeqOutputs ==
    {[kind |-> t, items |-> s] :
        t \in {"list", "tuple"}, s \in UNION {[1..n -> Values] : n \in 0..MaxOut}}

DictOutputs == {[kind |-> "dict", items |-> d] : d \in UNION {[S -> Values] : S \in SUBSET OutKeys}}

\* output_index: None, an int or a str.
IntSelectors == {PyInt(i) : i \in -(MaxOut + 1)..(MaxOut + 1)}

StrSelectors == {PyStr(k) : k \in OutKeys}

\* output[output_index] of a list, a tuple or a dict.
Subscript(output, output_index) ==
    IF output.kind = "dict"
    THEN IF output_index.kind = "str" /\ output_index.v \in DOMAIN output.items
         THEN Return(output.items[output_index.v])
         ELSE Raise("KeyError")
    ELSE IF output_index.kind # "int" THEN Raise("TypeError")
    ELSE IF ~PyInRange(output.items, output_index.v) THEN Raise("IndexError")
    ELSE Return(PyGetItem(output.items, output_index.v))

get_output(output, output_index) ==
    IF output_index = None THEN Return(output)
    ELSE Subscript(output, output_index)

\* output_obj is the contents, after the call, of the object passed in as
\* output: line 230 assigns into it.  Line 229 is modelled for lists and
\* tuples; the str branch on a list or a tuple is a TypeError.
put_output(output, edited_output, output_index) ==
    IF output_index = None
    THEN [exc |-> "None", value |-> edited_output, output_obj |-> output]
    ELSE IF output_index.kind = "int"
    THEN [exc |-> "None",
          value |-> [kind |-> output.kind,
                     items |-> [idx \in 1..Len(output.items) |->
                                   IF idx - 1 # output_index.v
                                   THEN output.items[idx] ELSE edited_output]],
          output_obj |-> output]
    ELSE IF output.kind = "dict"
    THEN LET written == [output EXCEPT !.items = DictSet(@, output_index.v, edited_output)]
         IN  [exc |-> "None", value |-> written, output_obj |-> written]
    ELSE [exc |-> "TypeError", output_obj |-> output]

\* ------------------------------------------------------------ normalizer

\* functools.partial(func, *args, **keywords).
Partial(func, args, keywords) ==
    [kind |-> "partial", func |-> func, args |-> args, keywords |-> keywords,
     name |-> "", doc |-> "", params |-> <<>>, signature |-> Absent, wrapped |-> Absent]

\* update_wrapper(wrapper, wrapped, assigned=CUSTOM_WRAPPER_ASSIGNMENTS):
\* the name, the documentation string and, where wrapped has one, the
\* __signature__ are copied onto wrapper, and __wrapped__ is set.
update_wrapper(wrapper, wrapped) ==
    [wrapper EXCEPT !.name = wrapped.name,
                    !.doc = wrapped.doc,
                    !.signature = IF wrapped.signature # Absent THEN wrapped.signature ELSE @,
                    !.wrapped = <<wrapped>>]

\* wraps(wrapped)(wrapper), with the wraps of line 31.
wraps(wrapped, wrapper) == update_wrapper(wrapper, wrapped)

\* The function object fn after the call: __signature__ is set on it when
\* it had none.
set_function_signature(fn) ==
    LET signature == Signature(fn) IN
    [fn EXCEPT !.signature = IF @ # Absent THEN @ ELSE <<signature>>]

\* def _fn(*args, **kwargs): the interface of the wrapper a transform returns.
GenericParams == <<Param("args", Empty), Param("kwargs", Empty)>>

\* The transforms: def t(fn), def t(fn, k), def t(fn, k, j=1).  A transform
\* returns a new function _fn(*args, **kwargs) closed over what it received.
Transforms ==
    {Function("t", "doc t", p, "transform", EmptyDict) :
        p \in {<<Param("fn", Empty)>>,
               <<Param("fn", Empty), Param("k", Empty)>>,
               <<Param("fn", Empty), Param("k", Empty), Param("j", PyInt(1))>>}}

PyBool(b) == [kind |-> "bool", v |-> b]

\* The builtin callable, the default of decorate.
CallableBuiltin == [kind |-> "builtin", name |-> "callable"]

\* lambda e: not isinstance(e, str), the discriminator of add_docstring.
NotStr ==
    Function("<lambda>", "", <<Param("e", Empty)>>, "not_isinstance_str", EmptyDict)

Discriminators == {CallableBuiltin, NotStr}

\* def decorator_factory(deco=None, decorate=callable).
decorator_factory_params == <<Param("deco", None), Param("decorate", CallableBuiltin)>>

decorator_factory_fn ==
    Function("decorator_factory", "Make a decorator into a decorator factory.",
             decorator_factory_params, "decorator_factory", EmptyDict)

RECURSIVE PyCall(_, _, _)
RECURSIVE _deco(_, _)
RECURSIVE _deco_factory(_, _, _, _, _)
RECURSIVE decorator_factory(_, _)

\* decorator(deco)(fn): the body of _deco, closed over deco.  fn_obj is the
\* function object fn after the call.
_deco(deco, fn) ==
    IF ~Callable(fn) THEN [exc |-> "TypeError", fn_obj |-> fn]
    ELSE LET fn2 == set_function_signature(fn)
             out == PyCall(deco, <<fn2>>, EmptyDict)
         IN  IF out.exc # "None" THEN [exc |-> out.exc, fn_obj |-> fn2]
             ELSE [exc |-> "None", value |-> wraps(fn2, out.value), fn_obj |-> fn2]

decorator(deco) ==
    Return(wraps(deco, Function("_deco", "", <<Param("fn", Empty)>>, "_deco",
                                [deco |-> deco])))

\* ------------------------------------------------------------- dispatcher

\* The body of _deco_factory, closed over deco and decorate.
_deco_factory(deco, decorate, fn, args, kwargs) ==
    LET is_target == PyCall(decorate, <<fn>>, EmptyDict) IN
    IF is_target.exc # "None" THEN is_target
    ELSE IF ~is_target.value.v
    THEN LET parameters == Signature(deco) IN
         IF ~PyInRange(parameters, 1) THEN Raise("IndexError")
         ELSE LET argname == PyGetItem(parameters, 1).name IN
              Return(update_wrapper(Partial(deco, args, DictSet(kwargs, argname, fn)), deco))
    ELSE LET out == PyCall(deco, <<fn>> \o args, kwargs) IN
         IF out.exc # "None" THEN out
         ELSE IF ~Callable(fn) THEN Raise("TypeError")
         ELSE Return(wraps(set_function_signature(fn), out.value))

decorator_factory(deco, decorate) ==
    LET parameters == decorator_factory_params
        named(n) == {i \in 1..Len(parameters) : parameters[i].name = n}
    IN  IF named("check_fn") = {} THEN Raise("KeyError")
        ELSE IF decorate # parameters[CHOOSE i \in named("check_fn") : TRUE].default
        THEN Return(update_wrapper(
                 Partial(decorator_factory_fn, <<>>, [check_fn |-> decorate]),
                 decorator_factory_fn))
        ELSE Return(wraps(deco,
                 Function("_deco_factory", "",
                          <<Param("fn", Empty), Param("args", Empty), Param("kwargs", Empty)>>,
                          "_deco_factory", [deco |-> deco, decorate |-> decorate])))

\* f(*args, **kwargs) for a callable object f of the session.
PyCall(f, args, kwargs) ==
    IF f.kind = "builtin"
    THEN IF Len(args) = 1 /\ DOMAIN kwargs = {} THEN Return(PyBool(Callable(args[1])))
         ELSE Raise("TypeError")
    ELSE IF f.kind = "partial"
    THEN PyCall(f.func, f.args \o args, DictMerge(f.keywords, kwargs))
    ELSE IF f.kind # "function" THEN Raise("TypeError")
    ELSE IF f.body = "_deco_factory"
    THEN IF args = <<>>
         THEN IF "fn" \notin DOMAIN kwargs THEN Raise("TypeError")
              ELSE _deco_factory(f.closure.deco, f.closure.decorate, kwargs["fn"], <<>>,
                                 [k \in (DOMAIN kwargs) \ {"fn"} |-> kwargs[k]])
         ELSE IF "fn" \in DOMAIN kwargs THEN Raise("TypeError")
         ELSE _deco_factory(f.closure.deco, f.closure.decorate, Head(args), Tail(args), kwargs)
    ELSE LET b == Bind(f.params, args, kwargs) IN
         IF b.exc # "None" THEN b
         ELSE IF f.body = "transform"
         THEN Return(Function("_fn", "", GenericParams, "wrapper",
                              [transform |-> f.name, received |-> b.value]))
         ELSE IF f.body = "not_isinstance_str" THEN Return(PyBool(b.value.e.kind # "str"))
         ELSE IF f.body = "_deco"
         THEN LET r == _deco(f.closure.deco, b.value.fn) IN
              IF r.exc = "None" THEN Return(r.value) ELSE Raise(r.exc)
         ELSE IF f.body = "decorator_factory"
         THEN decorator_factory(b.value.deco, b.value.decorate)
         ELSE Return([kind |-> "result", received |-> b.value])

\* --------------------------------------------------- cast_argument_to_type

\* condition and conversion: the defaults, lambda _: True and lambda e: e,
\* and one more of each.
Conditions == {"lambda _: True", "lambda _: False"}

Conversions == {"lambda e: e", "lambda e: 1"}

Condition(condition, argument) == condition = "lambda _: True"

Conversion(conversion, argument) ==
    IF conversion = "lambda e: e" THEN argument ELSE PyInt(1)

\* cast_argument_to_type(fn, argnum, condition, conversion)(*args, **kwargs):
\* the catalog lookup of line 33, then the body of _fn.  The target's call
\* fn(*args, **kwargs) of line 40 yields what each parameter of fn received.
cast_argument_to_type(fn, argnum, condition, conversion, args, kwargs) ==
    LET info == get_argument_info(fn, argnum) IN
    IF info.exc # "None" THEN Raise(info.exc)
    ELSE LET argument_info == info.value
             got == get_argument(argument_info, args, kwargs)
         IN  IF got.exc # "None" THEN Raise(got.exc)
             ELSE LET argument_type == got.value[2]
                      argument == IF Condition(condition, got.value[1])
                                  THEN Conversion(conversion, got.value[1])
                                  ELSE got.value[1]
                      put == put_argument(argument, argument_info, argument_type,
                                          args, kwargs)
                  IN  IF put.exc # "None" THEN Raise(put.exc)
                      ELSE Bind(fn.params, put.value[1], put.value[2])

\* ------------------------------------------------------------ the session

Init ==
    /\ pc = "idle"
    /\ call = EmptyDict
    /\ ret = Return(None)
    /\ after = EmptyDict

\* The positions a caller may ask the catalog for: in and out of range.
ArgNums == -(MaxParams + 1)..(MaxParams + 1)

\* get_argument_info(fn, argnum).
Call_get_argument_info ==
    /\ pc = "idle"
    /\ \E fn \in Targets, argnum \in ArgNums :
          /\ call' = [fn |-> fn, argnum |-> argnum]
          /\ ret' = get_argument_info(fn, argnum)
          /\ after' = [fn |-> fn]
    /\ pc' = "get_argument_info"

\* The ArgumentInfo records the catalog yields for a target.
InfosOf(fn) ==
    {get_argument_info(fn, p).value : p \in {q \in ArgNums : PyInRange(Signature(fn), q)}}

\* get_argument(argument_info, args, kwargs) on a catalog entry.
Call_get_argument ==
    /\ pc = "idle"
    /\ \E fn \in Targets, args \in ArgTuples, kwargs \in KwargDicts :
          \E info \in InfosOf(fn) :
             /\ call' = [fn |-> fn, argument_info |-> info, args |-> args, kwargs |-> kwargs]
             /\ ret' = get_argument(info, args, kwargs)
             /\ after' = [args |-> args, kwargs |-> kwargs]
    /\ pc' = "get_argument"

\* put_argument(argument, argument_info, argument_type, args, kwargs), with
\* the members of Argument and with a tag that is none of them.
Call_put_argument ==
    /\ pc = "idle"
    /\ \E fn \in Targets, args \in ArgTuples, kwargs \in KwargDicts :
          \E info \in InfosOf(fn), argument \in Values \cup {Empty},
             type \in Argument \cup {"OTHER"} :
             LET r == put_argument(argument, info, type, args, kwargs) IN
             /\ call' = [fn |-> fn, argument |-> argument, argument_info |-> info,
                         argument_type |-> type, args |-> args, kwargs |-> kwargs]
             /\ ret' = IF r.exc = "None" THEN Return(r.value) ELSE Raise(r.exc)
             /\ after' = [args |-> args, kwargs |-> r.kwargs_obj]
    /\ pc' = "put_argument"

\* The (output, output_index) pairs of a call: None with anything, an int
\* with a list or a tuple, a str with anything.
OutputCalls ==
    {<<o, i>> \in (SeqOutputs \cup DictOutputs) \X ({None} \cup IntSelectors \cup StrSelectors) :
        i.kind = "int" => o.kind # "dict"}

\* get_output(output, output_index).
Call_get_output ==
    /\ pc = "idle"
    /\ \E c \in OutputCalls :
          /\ call' = [output |-> c[1], output_index |-> c[2]]
          /\ ret' = get_output(c[1], c[2])
          /\ after' = [output |-> c[1]]
    /\ pc' = "get_output"

\* put_output(output, edited_output, output_index).
Call_put_output ==
    /\ pc = "idle"
    /\ \E c \in OutputCalls, edited_output \in Values :
          LET r == put_output(c[1], edited_output, c[2]) IN
          /\ call' = [output |-> c[1], edited_output |-> edited_output, output_index |-> c[2]]
          /\ ret' = IF r.exc = "None" THEN Return(r.value) ELSE Raise(r.exc)
          /\ after' = [output |-> r.output_obj]
    /\ pc' = "put_output"

\* decorator_factory(deco, decorate).
Call_decorator_factory ==
    /\ pc = "idle"
    /\ \E deco \in Transforms \cup {None}, decorate \in Discriminators :
          /\ call' = [deco |-> deco, decorate |-> decorate]
          /\ ret' = decorator_factory(deco, decorate)
          /\ after' = [deco |-> deco]
    /\ pc' = "decorator_factory"

\* decorator(deco).
Call_decorator ==
    /\ pc = "idle"
    /\ \E deco \in Transforms :
          /\ call' = [deco |-> deco]
          /\ ret' = decorator(deco)
          /\ after' = [deco |-> deco]
    /\ pc' = "decorator"

\* The objects a normalizer or a dispatcher is handed: targets and values
\* that are not callable.
Operands == Targets \cup {PyInt(1), PyStr("text")}

\* decorator(deco)(fn): the normalizer of the last call is applied.
Call__deco ==
    /\ pc = "decorator"
    /\ \E fn \in Operands :
          LET r == _deco(ret.value.closure.deco, fn) IN
          /\ call' = [normalizer |-> ret.value, fn |-> fn]
          /\ ret' = IF r.exc = "None" THEN Return(r.value) ELSE Raise(r.exc)
          /\ after' = [fn |-> r.fn_obj]
    /\ pc' = "_deco"

\* A call through the wrapper cast_argument_to_type builds.
Call_cast_argument_to_type ==
    /\ pc = "idle"
    /\ \E fn \in Targets, argnum \in ArgNums, args \in ArgTuples, kwargs \in KwargDicts :
          \E condition \in Conditions, conversion \in Conversions :
             /\ call' = [fn |-> fn, argnum |-> argnum, condition |-> condition,
                         conversion |-> conversion, args |-> args, kwargs |-> kwargs]
             /\ ret' = cast_argument_to_type(fn, argnum, condition, conversion, args, kwargs)
             /\ after' = [fn |-> fn]
    /\ pc' = "cast_argument_to_type"

Next ==
    \/ Call_get_argument_info
    \/ Call_get_argument
    \/ Call_put_argument
    \/ Call_get_output
    \/ Call_put_output
    \/ Call_decorator_factory
    \/ Call_decorator
    \/ Call__deco
    \/ Call_cast_argument_to_type

Spec == Init /\ [][Next]_vars

\* ----------------------------------------------------------------- claims

\* What "the same result as transform(...)" compares: both calls raise the
\* same exception, or both return a wrapper closed over the same binding of
\* the transform's parameters.
SameApplication(r, d) ==
    /\ r.exc = d.exc
    /\ r.exc = "None" => r.value.closure = d.value.closure

\* A normalized wrapper around target: its name, its documentation string
\* and the interface the catalog sees are the target's.
NormalizedAround(w, target) ==
    /\ w.name = target.name
    /\ w.doc = target.doc
    /\ Signature(w) = target.params

\* The configuration tuples c1, ..., ck (k >= 1) of values that are not
\* invocable.
ConfigTuples == UNION {[1..k -> Values] : k \in 1..MaxArgs}

\* C1: with the default discriminator, D = decorator_factory(transform)
\* exists; D(f) for an invocable f is transform applied to f; D(c1, ..., ck)
\* with c1 not invocable is a pending callable P, and P(f) is the same
\* result as transform(f, c1, ..., ck).
C1_DualModeDispatch ==
    (pc = "decorator_factory" /\ call.decorate = CallableBuiltin /\ call.deco \in Transforms) =>
        /\ ret.exc = "None"
        /\ \A f \in Targets :
              SameApplication(PyCall(ret.value, <<f>>, EmptyDict),
                              PyCall(call.deco, <<f>>, EmptyDict))
        /\ \A cs \in ConfigTuples, f \in Targets :
              LET P == PyCall(ret.value, cs, EmptyDict) IN
              /\ P.exc = "None"
              /\ SameApplication(PyCall(P.value, <<f>>, EmptyDict),
                                 PyCall(call.deco, <<f>> \o cs, EmptyDict))

\* C2: the dispatcher goes Unbound -> Applied or Unbound -> PendingTarget ->
\* Applied, and on both paths the value reached in Applied is a normalized
\* wrapper around the target: name, documentation string and parameter
\* interface are the target's.
C2_AppliedIsNormalized ==
    (pc = "decorator_factory" /\ call.decorate = CallableBuiltin /\ call.deco \in Transforms) =>
        /\ ret.exc = "None"
        /\ \A f \in Targets :
              LET direct == PyCall(ret.value, <<f>>, EmptyDict) IN
              direct.exc = "None" => NormalizedAround(direct.value, f)
        /\ \A cs \in ConfigTuples, f \in Targets :
              LET P == PyCall(ret.value, cs, EmptyDict)
                  applied == PyCall(P.value, <<f>>, EmptyDict)
              IN  /\ P.exc = "None"
                  /\ applied.exc = "None" => NormalizedAround(applied.value, f)

\* C3: decorator_factory(decorate=pred) with a non-default pred and no
\* transform returns a re-parameterized dispatcher: applied to a transform
\* it yields a dual-mode callable whose discriminator is pred.
C3_ReparameterizedDispatcher ==
    (pc = "decorator_factory" /\ call.decorate # CallableBuiltin /\ call.deco = None) =>
        /\ ret.exc = "None"
        /\ \A t \in Transforms :
              LET D == PyCall(ret.value, <<t>>, EmptyDict) IN
              /\ D.exc = "None"
              /\ D.value.kind = "function"
              /\ D.value.body = "_deco_factory"
              /\ D.value.closure = [deco |-> t, decorate |-> call.decorate]

\* The configuration values of a call that passes them by name only: a
\* dict over the transform's parameters after the target.
NamedConfigs(transform) ==
    UNION {[S -> Values] :
              S \in (SUBSET {transform.params[i].name : i \in 2..Len(transform.params)}) \ {{}}}

\* C4: a dual-mode callable called with configuration values by name only
\* and no positional argument returns a pending wrapper P, and P(t) is
\* transform(t, <those named values>).
C4_KeywordOnlyConfiguration ==
    (pc = "decorator_factory" /\ call.decorate = CallableBuiltin /\ call.deco \in Transforms) =>
        /\ ret.exc = "None"
        /\ \A kw \in NamedConfigs(call.deco), f \in Targets :
              LET P == PyCall(ret.value, <<>>, kw) IN
              /\ P.exc = "None"
              /\ SameApplication(PyCall(P.value, <<f>>, EmptyDict),
                                 PyCall(call.deco, <<f>>, kw))

\* C5: get_argument never fails and classifies in a fixed order: the name
\* in kwargs gives (kwargs[name], KEYWORD), also when args has an entry at
\* the position; else len(args) > position gives (args[position],
\* POSITIONAL); else (default, DEFAULT).
C5_LocatorOrder ==
    pc = "get_argument" =>
        LET info == call.argument_info IN
        /\ ret.exc = "None"
        /\ info.argname \in DOMAIN call.kwargs =>
              ret.value = <<call.kwargs[info.argname], KEYWORD>>
        /\ (info.argname \notin DOMAIN call.kwargs /\ Len(call.args) > info.argnum) =>
              ret.value = <<call.args[info.argnum + 1], POSITIONAL>>
        /\ (info.argname \notin DOMAIN call.kwargs /\ Len(call.args) <= info.argnum) =>
              ret.value = <<info.default, DEFAULT>>

\* The name is in kwargs and args has an entry at the position as well: the
\* locator answered KEYWORD.
C5_Witness ==
    /\ pc = "get_argument"
    /\ call.argument_info.argname \in DOMAIN call.kwargs
    /\ Len(call.args) > call.argument_info.argnum
    /\ call.args[call.argument_info.argnum + 1] # call.kwargs[call.argument_info.argname]
    /\ ret = Return(<<call.kwargs[call.argument_info.argname], KEYWORD>>)

\* The put_argument call was handed what get_argument yields for the same
\* parameter and CallState.
IsRoundTrip ==
    /\ pc = "put_argument"
    /\ get_argument(call.argument_info, call.args, call.kwargs)
          = Return(<<call.argument, call.argument_type>>)

\* C6: round trip: put_argument(v, P, loc, S) with (v, loc) =
\* get_argument(P, S) returns a CallState equal to S in every positional
\* slot and every named entry, except that for loc = DEFAULT it has the
\* named entry P.name = v in addition.
C6_RoundTrip ==
    IsRoundTrip =>
        LET name == call.argument_info.argname
            added == IF call.argument_type = DEFAULT THEN {name} ELSE {}
        IN  /\ ret.exc = "None"
            /\ ret.value[1] = call.args
            /\ DOMAIN ret.value[2] = (DOMAIN call.kwargs) \cup added
            /\ \A k \in DOMAIN call.kwargs : ret.value[2][k] = call.kwargs[k]
            /\ \A k \in added : k \notin DOMAIN call.kwargs /\ ret.value[2][k] = call.argument

\* A round trip of a declared default past a positional value: the result
\* has the entries of S and the default under the parameter's name.
C6_Witness ==
    /\ IsRoundTrip
    /\ call.argument_type = DEFAULT
    /\ call.argument \in Values
    /\ call.args # <<>>
    /\ call.argument_info.argname \notin DOMAIN call.kwargs
    /\ ret.value[1] = call.args
    /\ ret.value[2][call.argument_info.argname] = call.argument

\* C7: put_argument never mutates the CallState it is handed: after the
\* call, the args sequence and the kwargs mapping passed in hold the
\* entries they held before.
C7_InputNotMutated ==
    (pc = "put_argument" /\ call.argument_type \in Argument) =>
        /\ after.args = call.args
        /\ after.kwargs = call.kwargs

\* C8: for n >= 1 declared parameters and a requested position p: for
\* -n <= p < n the catalog returns the ParameterInfo at position p (p >= 0)
\* or p + n (p < 0), always in [0, n), with that parameter's name and
\* default; for any other p it fails with a LookupError and returns nothing.
C8_CatalogPosition ==
    pc = "get_argument_info" =>
        LET params == call.fn.params
            n == Len(params)
            p == call.argnum
        IN  /\ n >= 1
            /\ (-n <= p /\ p < n) =>
                  /\ ret.exc = "None"
                  /\ ret.value.argnum = (IF p >= 0 THEN p ELSE p + n)
                  /\ ret.value.argnum \in 0..(n - 1)
                  /\ ret.value.argname = params[ret.value.argnum + 1].name
                  /\ ret.value.default = params[ret.value.argnum + 1].default
            /\ ~(-n <= p /\ p < n) =>
                  /\ ret.exc \in LookupErrors
                  /\ "value" \notin DOMAIN ret

\* f(a, b=2) asked for position -1: b, at position 1, default 2.
C8_Witness ==
    /\ pc = "get_argument_info"
    /\ call.fn.params = <<Param("a", Empty), Param("b", PyInt(2))>>
    /\ call.argnum = -1
    /\ ret = Return(ArgumentInfo("b", 1, PyInt(2)))

\* C9: for a list or tuple o and every int i at which get_output(o, i)
\* selects an element, negative i included, put_output(o, x, i) returns a
\* sequence of o's type and length in which get_output(result, i) = x and
\* every other element is the one of o.
C9_OutputSymmetry ==
    (/\ pc = "put_output"
     /\ call.output.kind \in {"list", "tuple"}
     /\ call.output_index.kind = "int"
     /\ get_output(call.output, call.output_index).exc = "None") =>
        LET o == call.output.items
            i == call.output_index.v
            at == IF i >= 0 THEN i + 1 ELSE Len(o) + i + 1
        IN  /\ ret.exc = "None"
            /\ ret.value.kind = call.output.kind
            /\ Len(ret.value.items) = Len(o)
            /\ get_output(ret.value, call.output_index) = Return(call.edited_output)
            /\ \A j \in 1..Len(o) : j # at => ret.value.items[j] = o[j]

\* C10: a call through the wrapper of cast_argument_to_type, with the
\* default condition and the identity conversion, gives every parameter of
\* the target the value the unwrapped call gives it, and the no-default
\* marker is never what a parameter receives.
C10_WrapperForwardsFaithfully ==
    (/\ pc = "cast_argument_to_type"
     /\ call.condition = "lambda _: True"
     /\ call.conversion = "lambda e: e"
     /\ PyInRange(call.fn.params, call.argnum)) =>
        /\ ret = Bind(call.fn.params, call.args, call.kwargs)
        /\ ret.exc = "None" => \A nm \in DOMAIN ret.value : ret.value[nm] # Empty

====
